---- MODULE Spec2Model ----
(***************************************************************************)
(* Tenant database registry and router of the communication backend.       *)
(*                                                                         *)
(*   api/views.py            RegisterDBAPIView.post (registration workflow)*)
(*   api/utils.py            decrypt_password, test_db_connection,         *)
(*                           add_db_alias                                  *)
(*   config/models.py        SoftDeleteModel, UserDatabase                 *)
(*   communication/db_router.py   tenant context and database router       *)
(*   communication/middleware.py  TenantMiddleware                         *)
(*   communicationapp/mixins.py   RouterTenantContextMixin                 *)
(*                                                                         *)
(* Python str values are sequences of tokens, so that an f-string is a     *)
(* concatenation and two strings are equal exactly when their tokens are.  *)
(***************************************************************************)
EXTENDS Integers, Sequences, FiniteSets, TLC

\* ------------------------------------------------------------------ bounds
\* Number of POST /register requests started in one behaviour.
MaxRequests == 2

\* ------------------------------------------------------------ Python values
\* Python None: no str of the model holds this token.
None == <<"<None>">>

\* str(n) for the small integers of the model.
IntStr(n) ==
    CASE n = 0 -> <<"0">>
      [] n = 1 -> <<"1">>
      [] n = 2 -> <<"2">>
      [] n = 3 -> <<"3">>
      [] OTHER -> <<"9">>

\* A falsy Python value (None or the empty str).
Falsy(v) == v = None \/ v = <<>>

\* -------------------------------------------------------- request payloads
\* Worker threads of the server, each handling one request at a time.
Workers == {"w1", "w2"}

UserIds == {1, 2}

\* username is optional (required=False); "AL" and "al" differ only in case.
Usernames == {None, <<"al">>, <<"AL">>}

\* db_port values a client may send: two in range, two out of range, one
\* that is no number.
Ports == {<<"5432">>, <<"0">>, <<"70000">>, <<"abc">>}

\* int(value) of a db_port string; "NaN" stands for the ValueError.
PortInt(p) ==
    CASE p = <<"5432">> -> 5432
      [] p = <<"0">> -> 0
      [] p = <<"70000">> -> 70000
      [] OTHER -> -1

PortIsNumber(p) == p \in {<<"5432">>, <<"0">>, <<"70000">>}

Hosts == {<<"localhost">>, <<"db.example.com">>}

\* Hosts the resolver of the deployment knows.
ResolvableHosts == {<<"localhost">>}

\* The password the tenant database accepts.
TruePassword == <<"pw1">>

\* The configured settings.DB_ENCRYPTION_KEY and the legacy settings.SECRET_KEY.
PrimaryKey == <<"K1">>
SecretKey == <<"S1">>

\* A Fernet token: ciphertext of plaintext p under key k.  Tokens and
\* plaintexts are both str; a token is recognisable by its first token.
Fernet(k, p) == <<"gAAAA">> \o k \o <<":">> \o p

IsFernet(k, s) == Len(s) >= Len(k) + 2 /\ SubSeq(s, 1, Len(k) + 2) = <<"gAAAA">> \o k \o <<":">>

FernetPlain(k, s) == SubSeq(s, Len(k) + 3, Len(s))

\* db_password values a client may send: the encrypted password, and the
\* password in the clear.
Passwords == {Fernet(PrimaryKey, TruePassword), TruePassword}

Payloads ==
    [user_id : UserIds, username : Usernames, db_password : Passwords,
     db_host : Hosts, db_port : Ports]

NoData == [user_id |-> 0, username |-> None, db_password |-> None,
           db_host |-> None, db_port |-> None]


\* ------------------------------------------------------------------- state
VARIABLES
    rows,                  \* the UserDatabase table, in insertion order
    settingsDATABASES,     \* settings.DATABASES: alias -> configuration
    connectionsDatabases,  \* connections.databases: alias -> configuration
    pc,                    \* per worker: the statement of post it is at
    d,                     \* per worker: ser.validated_data
    real_pw,               \* per worker: the local real_pw
    entry,                 \* per worker: id of the row it created, 0 if none
    conn,                  \* per worker: its connection under db_alias
    resp,                  \* per worker: the response of its last request
    steps,                 \* per worker: workflow steps its request performed
    started,               \* number of requests started
    overlapped,            \* whether two requests ever ran at the same time
    ctxTenant,             \* per execution unit: _current_tenant in its context
    tlTenant,              \* per OS thread: _thread_local.tenant_id
    phase,                 \* per execution unit: where its request is
    reqTenant,             \* per execution unit: the tenant its request bound
    routed,                \* the last router call: arguments and result
    decided,               \* the last allow_relation / allow_migrate call
    vault,                 \* the last encrypt_password / decrypt_password call
    cache,                 \* django cache: key -> entry with its expiry time
    clock,                 \* time.time(), in seconds
    upstream,              \* the accounts service: client id -> record version
    resolved,              \* the last get_cached_client_db_info call
    job                    \* the ensure_alias_for_client / refresh_alias_for_client call

regVars == <<rows, settingsDATABASES, connectionsDatabases, pc, d, real_pw,
             entry, conn, resp, steps, started, overlapped>>

ctxVars == <<ctxTenant, tlTenant, phase, reqTenant, routed>>

extVars == <<decided, vault, cache, clock, upstream, resolved, job>>

vars == <<regVars, ctxVars, extVars>>

\* db_alias = f"client_{user_id}"
db_alias(user_id) == <<"client_">> \o IntStr(user_id)

Aliases == {db_alias(u) : u \in UserIds}

\* Lower("username") of the unique constraint.
Lower(s) == [i \in 1..Len(s) |-> IF s[i] = "AL" THEN "al" ELSE s[i]]

\* dict.pop(key, None)
Pop(dict, key) == [k \in DOMAIN dict \ {key} |-> dict[k]]

\* dict[key] = value
Put(dict, key, value) == [k \in DOMAIN dict \cup {key} |-> IF k = key THEN value ELSE dict[k]]

InProgress(w) == pc[w] \notin {"idle", "done"}

\* UserDatabaseSerializer.validate_db_port
validate_db_port(value) == PortIsNumber(value) /\ 1 <= PortInt(value) /\ PortInt(value) <= 65535

\* ser.is_valid()
is_valid(data) == validate_db_port(data.db_port)

\* Variant: the existence check sees live rows only.
RowExists_LiveOnly(user_id) ==
    \E i \in 1..Len(rows) : rows[i].user_id = user_id /\ ~rows[i].is_deleted

\* UserDatabase.objects.filter(user_id=user_id).exists(): objects is the
\* default manager, so soft-deleted rows are seen as well.
RowExists(user_id) == \E i \in 1..Len(rows) : rows[i].user_id = user_id

\* Keys Fernet.generate_key() can return when no key is configured.
GeneratedKeys == {<<"G1">>, <<"G2">>}

\* Keys Fernet(key) accepts: 32 url-safe base64-encoded bytes.  The legacy
\* SECRET_KEY[:32] is 32 characters, never the 44 of an encoded key.
ValidKey(key) == key \in {PrimaryKey} \cup GeneratedKeys

\* get_encryption_key: the configured key, or a freshly generated one.
get_encryption_key(key, generated) == IF Falsy(key) THEN generated ELSE key

\* Variant: a fresh key is generated for every encryption.
encrypt_password_FreshKey(key, password, generated) ==
    IF ValidKey(generated) THEN Fernet(generated, password) ELSE password

\* encrypt_password, given settings.DB_ENCRYPTION_KEY and the key
\* generate_key would return: the token, or the password itself when
\* Fernet(key) raises.
encrypt_password(key, password, generated) ==
    IF ValidKey(get_encryption_key(key, generated))
    THEN Fernet(get_encryption_key(key, generated), password)
    ELSE password

\* decrypt_password, given settings.DB_ENCRYPTION_KEY: the primary key when
\* configured, else the legacy SECRET_KEY[:32]; any failure is swallowed
\* and the argument is returned as it came.
decrypt_password(key, encrypted_password) ==
    IF ~Falsy(key)
    THEN IF ValidKey(key) /\ IsFernet(key, encrypted_password)
         THEN FernetPlain(key, encrypted_password)
         ELSE encrypted_password
    ELSE IF ValidKey(SecretKey) /\ IsFernet(SecretKey, encrypted_password)
         THEN FernetPlain(SecretKey, encrypted_password)
         ELSE encrypted_password

\* The unique constraints on username: unique=True, and unique on
\* Lower(username).  NULL never collides.
UsernameTaken(username) ==
    /\ username # None
    /\ \E i \in 1..Len(rows) :
          /\ rows[i].username # None
          /\ \/ rows[i].username = username
             \/ Lower(rows[i].username) = Lower(username)

\* The configuration add_db_alias builds.
Cfg(data, password) ==
    [NAME |-> <<"db">>, USER |-> <<"user">>, PASSWORD |-> password,
     HOST |-> data.db_host, PORT |-> PortInt(data.db_port),
     CONN_MAX_AGE |-> 60, CONN_HEALTH_CHECKS |-> TRUE]

\* SoftDeleteModel.delete: the row stays, flagged.
SoftDelete(table, id) ==
    [i \in 1..Len(table) |-> IF table[i].id = id
                             THEN [table[i] EXCEPT !.is_deleted = TRUE]
                             ELSE table[i]]

RegInit ==
    /\ rows = <<>>
    /\ settingsDATABASES = <<>>
    /\ connectionsDatabases = <<>>
    /\ pc = [w \in Workers |-> "idle"]
    /\ d = [w \in Workers |-> NoData]
    /\ real_pw = [w \in Workers |-> None]
    /\ entry = [w \in Workers |-> 0]
    /\ conn = [w \in Workers |-> "none"]
    /\ resp = [w \in Workers |-> "none"]
    /\ steps = [w \in Workers |-> <<>>]
    /\ started = 0
    /\ overlapped = FALSE

\* The request ends with the given response.
Respond(w, r) ==
    /\ pc' = [pc EXCEPT ![w] = "done"]
    /\ resp' = [resp EXCEPT ![w] = r]

Goto(w, label, step) ==
    /\ pc' = [pc EXCEPT ![w] = label]
    /\ steps' = [steps EXCEPT ![w] = Append(@, step)]

\* post, lines 115-123: a request arrives and is validated.
Post(w) ==
    /\ pc[w] \in {"idle", "done"}
    /\ started < MaxRequests
    /\ started' = started + 1
    /\ overlapped' = (overlapped \/ \E o \in Workers \ {w} : InProgress(o))
    /\ entry' = [entry EXCEPT ![w] = 0]
    /\ conn' = [conn EXCEPT ![w] = "none"]
    /\ real_pw' = [real_pw EXCEPT ![w] = None]
    /\ \E data \in Payloads :
          IF is_valid(data)
          THEN /\ d' = [d EXCEPT ![w] = data]
               /\ pc' = [pc EXCEPT ![w] = "dupcheck"]
               /\ steps' = [steps EXCEPT ![w] = <<"validated">>]
               /\ resp' = [resp EXCEPT ![w] = "none"]
          ELSE /\ d' = [d EXCEPT ![w] = NoData]
               /\ steps' = [steps EXCEPT ![w] = <<>>]
               /\ Respond(w, "400_invalid")
    /\ UNCHANGED <<rows, settingsDATABASES, connectionsDatabases>>
    /\ UNCHANGED ctxVars
    /\ UNCHANGED extVars

\* Variant: after the duplicate check post goes straight to the insert.
DupCheck_SkipChecks(w) ==
    /\ pc[w] = "dupcheck"
    /\ IF RowExists(d[w].user_id)
       THEN Respond(w, "400_duplicate") /\ UNCHANGED steps
       ELSE Goto(w, "create", "dupchecked") /\ UNCHANGED resp
    /\ UNCHANGED <<rows, settingsDATABASES, connectionsDatabases, d, real_pw,
                   entry, conn, started, overlapped>>
    /\ UNCHANGED ctxVars
    /\ UNCHANGED extVars

\* post, lines 130-136: already registered?
DupCheck(w) ==
    /\ pc[w] = "dupcheck"
    /\ IF RowExists(d[w].user_id)
       THEN Respond(w, "400_duplicate") /\ UNCHANGED steps
       ELSE Goto(w, "hostcheck", "dupchecked") /\ UNCHANGED resp
    /\ UNCHANGED <<rows, settingsDATABASES, connectionsDatabases, d, real_pw,
                   entry, conn, started, overlapped>>
    /\ UNCHANGED ctxVars
    /\ UNCHANGED extVars

\* test_db_connection: psycopg2.connect then close; the server accepts
\* only its password, and may be unreachable.
test_db_connection(password, reachable) == reachable /\ password = TruePassword

\* Variant: the alias is registered before the connection is tested.
PreChecks_RegisterFirst(w) ==
    /\ pc[w] = "hostcheck"
    /\ IF d[w].db_host \notin ResolvableHosts
       THEN /\ Respond(w, "400_host")
            /\ UNCHANGED <<steps, real_pw, settingsDATABASES, connectionsDatabases>>
       ELSE \E reachable \in BOOLEAN :
               LET pw == decrypt_password(PrimaryKey, d[w].db_password) IN
               /\ settingsDATABASES' = Put(settingsDATABASES, db_alias(d[w].user_id), Cfg(d[w], pw))
               /\ connectionsDatabases' = Put(connectionsDatabases, db_alias(d[w].user_id), Cfg(d[w], pw))
               /\ IF test_db_connection(pw, reachable)
                  THEN /\ real_pw' = [real_pw EXCEPT ![w] = pw]
                       /\ pc' = [pc EXCEPT ![w] = "aliascheck"]
                       /\ steps' = [steps EXCEPT ![w] = @ \o <<"host", "decrypt", "conntest">>]
                       /\ UNCHANGED resp
                  ELSE /\ Respond(w, "400_connect")
                       /\ steps' = [steps EXCEPT ![w] = @ \o <<"host", "decrypt">>]
                       /\ UNCHANGED real_pw
    /\ UNCHANGED <<rows, d, entry, conn, started, overlapped>>
    /\ UNCHANGED ctxVars
    /\ UNCHANGED extVars

\* post, lines 138-161: host check (socket.gethostbyname), password
\* decryption and live connection test.  These touch no shared state, so
\* they are one step.  decrypt_password never raises, so the except branch
\* of the view is dead.
PreChecks(w) ==
    /\ pc[w] = "hostcheck"
    /\ IF d[w].db_host \notin ResolvableHosts
       THEN /\ Respond(w, "400_host")
            /\ UNCHANGED <<steps, real_pw>>
       ELSE \E reachable \in BOOLEAN :
               LET pw == decrypt_password(PrimaryKey, d[w].db_password) IN
               IF test_db_connection(pw, reachable)
               THEN /\ real_pw' = [real_pw EXCEPT ![w] = pw]
                    /\ pc' = [pc EXCEPT ![w] = "aliascheck"]
                    /\ steps' = [steps EXCEPT ![w] = @ \o <<"host", "decrypt", "conntest">>]
                    /\ UNCHANGED resp
               ELSE /\ Respond(w, "400_connect")
                    /\ steps' = [steps EXCEPT ![w] = @ \o <<"host", "decrypt">>]
                    /\ UNCHANGED real_pw
    /\ UNCHANGED <<rows, settingsDATABASES, connectionsDatabases, d, entry,
                   conn, started, overlapped>>
    /\ UNCHANGED ctxVars
    /\ UNCHANGED extVars

\* post, lines 163-166: db_alias in settings.DATABASES
AliasCheck(w) ==
    /\ pc[w] = "aliascheck"
    /\ IF db_alias(d[w].user_id) \in DOMAIN settingsDATABASES
       THEN Respond(w, "400_alias_exists") /\ UNCHANGED steps
       ELSE Goto(w, "create", "aliaschecked") /\ UNCHANGED resp
    /\ UNCHANGED <<rows, settingsDATABASES, connectionsDatabases, d, real_pw,
                   entry, conn, started, overlapped>>
    /\ UNCHANGED ctxVars
    /\ UNCHANGED extVars

\* UserDatabase.objects.create(...): the new row, db_password as received.
NewRow(table, data) ==
    [id |-> Len(table) + 1, user_id |-> data.user_id, username |-> data.username,
     db_password |-> data.db_password, db_host |-> data.db_host,
     db_port |-> data.db_port, is_deleted |-> FALSE]

\* post, lines 168-178: the insert is outside the try, so an
\* IntegrityError on username leaves post as an unhandled exception.
Create(w) ==
    /\ pc[w] = "create"
    /\ IF UsernameTaken(d[w].username)
       THEN /\ Respond(w, "500_unhandled")
            /\ UNCHANGED <<rows, entry, steps>>
       ELSE /\ rows' = Append(rows, NewRow(rows, d[w]))
            /\ entry' = [entry EXCEPT ![w] = Len(rows) + 1]
            /\ Goto(w, "add_alias", "record")
            /\ UNCHANGED resp
    /\ UNCHANGED <<settingsDATABASES, connectionsDatabases, d, real_pw, conn,
                   started, overlapped>>
    /\ UNCHANGED ctxVars
    /\ UNCHANGED extVars

\* add_db_alias (api/utils.py): both tables are written, whatever they held.
add_db_alias_settings(alias, cfg) == Put(settingsDATABASES, alias, cfg)

add_db_alias_connections(alias, cfg) == Put(connectionsDatabases, alias, cfg)

\* post, lines 180-189
AddAlias(w) ==
    /\ pc[w] = "add_alias"
    /\ settingsDATABASES' = add_db_alias_settings(db_alias(d[w].user_id), Cfg(d[w], real_pw[w]))
    /\ connectionsDatabases' = add_db_alias_connections(db_alias(d[w].user_id), Cfg(d[w], real_pw[w]))
    /\ Goto(w, "migrate", "alias")
    /\ UNCHANGED <<rows, d, real_pw, entry, conn, resp, started, overlapped>>
    /\ UNCHANGED ctxVars
    /\ UNCHANGED extVars

\* post, lines 191-201: call_command('migrate', ...) opens this thread's
\* connection under db_alias; an alias no longer in connections.databases
\* makes it raise.  showmigrations is non-fatal and changes nothing.
Migrate(w) ==
    /\ pc[w] = "migrate"
    /\ IF db_alias(d[w].user_id) \notin DOMAIN connectionsDatabases
       THEN /\ Goto(w, "cleanup_delete", "migrate_failed")
            /\ UNCHANGED conn
       ELSE \E outcome \in {"ok", "connect_failed", "failed"} :
               /\ conn' = [conn EXCEPT ![w] = IF outcome = "connect_failed" THEN "none" ELSE "open"]
               /\ IF outcome = "ok"
                  THEN Goto(w, "finally", "migrated")
                  ELSE Goto(w, "cleanup_delete", "migrate_failed")
    /\ UNCHANGED <<rows, settingsDATABASES, connectionsDatabases, d, real_pw,
                   entry, resp, started, overlapped>>
    /\ UNCHANGED ctxVars
    /\ UNCHANGED extVars

\* post, line 206: entry.delete()
CleanupDelete(w) ==
    /\ pc[w] = "cleanup_delete"
    /\ rows' = SoftDelete(rows, entry[w])
    /\ Goto(w, "cleanup_pop", "deleted")
    /\ UNCHANGED <<settingsDATABASES, connectionsDatabases, d, real_pw, entry,
                   conn, resp, started, overlapped>>
    /\ UNCHANGED ctxVars
    /\ UNCHANGED extVars

\* post, lines 207-213: settings.DATABASES.pop(db_alias, None) and
\* connections.databases.pop(db_alias, None)
CleanupPop(w) ==
    /\ pc[w] = "cleanup_pop"
    /\ settingsDATABASES' = Pop(settingsDATABASES, db_alias(d[w].user_id))
    /\ connectionsDatabases' = Pop(connectionsDatabases, db_alias(d[w].user_id))
    /\ Goto(w, "finally", "unregistered")
    /\ UNCHANGED <<rows, d, real_pw, entry, conn, resp, started, overlapped>>
    /\ UNCHANGED ctxVars
    /\ UNCHANGED extVars

\* Variant: the connection is closed only while the alias is still
\* registered.
Finally_CloseIfRegistered(w) ==
    /\ pc[w] = "finally"
    /\ conn' = [conn EXCEPT ![w] =
                   IF @ = "open" /\ db_alias(d[w].user_id) \in DOMAIN connectionsDatabases
                   THEN "closed" ELSE @]
    /\ Respond(w, IF steps[w][Len(steps[w])] = "migrated" THEN "201" ELSE "500_migration")
    /\ UNCHANGED <<rows, settingsDATABASES, connectionsDatabases, d, real_pw,
                   entry, steps, started, overlapped>>
    /\ UNCHANGED ctxVars
    /\ UNCHANGED extVars

\* post, lines 214-225: the finally closes this thread's connection, then
\* the response leaves.
Finally(w) ==
    /\ pc[w] = "finally"
    /\ conn' = [conn EXCEPT ![w] = IF @ = "open" THEN "closed" ELSE @]
    /\ Respond(w, IF steps[w][Len(steps[w])] = "migrated" THEN "201" ELSE "500_migration")
    /\ UNCHANGED <<rows, settingsDATABASES, connectionsDatabases, d, real_pw,
                   entry, steps, started, overlapped>>
    /\ UNCHANGED ctxVars
    /\ UNCHANGED extVars

RegStep(w) ==
    \/ Post(w)
    \/ DupCheck(w)
    \/ PreChecks(w)
    \/ AliasCheck(w)
    \/ Create(w)
    \/ AddAlias(w)
    \/ Migrate(w)
    \/ CleanupDelete(w)
    \/ CleanupPop(w)
    \/ Finally(w)

RegNext == \E w \in Workers : RegStep(w)

\* ----------------------------------------------------------- tenant context
\* Execution units handling requests: u1 and u2 are tasks sharing the OS
\* thread t1, each with its own context; u3 runs on thread t2.
Units == {"u1", "u2", "u3"}

Threads == {"t1", "t2"}

ThreadOf(u) == IF u = "u3" THEN "t2" ELSE "t1"

\* Tenant identifiers a client may send in X-Tenant or ?tenant=.
TenantIds == {<<"1">>, <<"2">>}

Default == <<"default">>

\* set_current_tenant: the ContextVar of the caller's context.
set_current_tenant_ctx(u, tenant_id) == [ctxTenant EXCEPT ![u] = tenant_id]

\* set_current_tenant: the thread-local of the caller's thread.
set_current_tenant_tl(u, tenant_id) == [tlTenant EXCEPT ![ThreadOf(u)] = tenant_id]

\* Variant: the thread-local is read first.
get_current_tenant_ThreadFirst(u) ==
    IF tlTenant[ThreadOf(u)] # None THEN tlTenant[ThreadOf(u)] ELSE ctxTenant[u]

\* get_current_tenant: the ContextVar unless it is None, then the
\* thread-local (None when the attribute was never set).
get_current_tenant(u) ==
    IF ctxTenant[u] # None THEN ctxTenant[u] ELSE tlTenant[ThreadOf(u)]

\* Python's `a or b`
Or(a, b) == IF Falsy(a) THEN b ELSE a

NoRoute == [app_label |-> <<>>, hints |-> {}, op |-> "none", tenant |-> None,
            result |-> None]

CtxInit ==
    /\ ctxTenant = [u \in Units |-> None]
    /\ tlTenant = [t \in Threads |-> None]
    /\ phase = [u \in Units |-> "idle"]
    /\ reqTenant = [u \in Units |-> None]
    /\ routed = NoRoute

\* process_request: the tenant id taken from the X-Tenant header, the
\* tenant query parameter, META['HTTP_X_TENANT'], or "default".
request_tenant(x_tenant, get_tenant, meta_tenant) ==
    Or(x_tenant, Or(get_tenant, Or(meta_tenant, Default)))

\* TenantMiddleware.process_request, called first by __call__.
MwProcessRequest(u) ==
    /\ phase[u] \in {"idle", "ended"}
    /\ \E x_tenant \in TenantIds \cup {None, <<>>}, get_tenant \in TenantIds \cup {None},
          meta_tenant \in TenantIds \cup {None} :
          LET tenant_id == request_tenant(x_tenant, get_tenant, meta_tenant) IN
          /\ ctxTenant' = set_current_tenant_ctx(u, tenant_id)
          /\ tlTenant' = set_current_tenant_tl(u, tenant_id)
          /\ reqTenant' = [reqTenant EXCEPT ![u] = tenant_id]
    /\ phase' = [phase EXCEPT ![u] = "mw_bound"]
    /\ UNCHANGED routed
    /\ UNCHANGED regVars
    /\ UNCHANGED extVars

\* TenantMiddleware.__call__, line 19: self.get_response(request) returns
\* a response, or raises and leaves __call__ at once.
MwGetResponse(u) ==
    /\ phase[u] = "mw_bound"
    /\ \E raised \in BOOLEAN :
          phase' = [phase EXCEPT ![u] = IF raised THEN "ended" ELSE "mw_response"]
    /\ UNCHANGED <<ctxTenant, tlTenant, reqTenant, routed>>
    /\ UNCHANGED regVars
    /\ UNCHANGED extVars

\* TenantMiddleware.process_response
MwProcessResponse(u) ==
    /\ phase[u] = "mw_response"
    /\ ctxTenant' = set_current_tenant_ctx(u, None)
    /\ tlTenant' = set_current_tenant_tl(u, None)
    /\ phase' = [phase EXCEPT ![u] = "ended"]
    /\ UNCHANGED <<reqTenant, routed>>
    /\ UNCHANGED regVars
    /\ UNCHANGED extVars

\* Aliases carried by the tokens of authenticated callers.
TokenAliases == {<<"client_", "1">>, <<"client_", "2">>}

\* RouterTenantContextMixin.initial: _ensure_alias_ready raises when the
\* token has no alias (nothing is bound; the view answers through
\* finalize_response); otherwise the alias is bound and the view's own
\* initial() checks run.
MxInitial(u) ==
    /\ phase[u] \in {"idle", "ended"}
    /\ \E alias \in TokenAliases \cup {None} :
          IF alias = None
          THEN /\ reqTenant' = [reqTenant EXCEPT ![u] = None]
               /\ phase' = [phase EXCEPT ![u] = "mx_finalize"]
               /\ UNCHANGED <<ctxTenant, tlTenant>>
          ELSE /\ ctxTenant' = set_current_tenant_ctx(u, alias)
               /\ tlTenant' = set_current_tenant_tl(u, alias)
               /\ reqTenant' = [reqTenant EXCEPT ![u] = alias]
               /\ phase' = [phase EXCEPT ![u] = "mx_bound"]
    /\ UNCHANGED routed
    /\ UNCHANGED regVars
    /\ UNCHANGED extVars

\* The view's handler under APIView.dispatch: a response or an
\* APIException goes on to finalize_response; any other exception is
\* re-raised by dispatch, and finalize_response is not called.
MxHandler(u) ==
    /\ phase[u] = "mx_bound"
    /\ \E outcome \in {"response", "api_exception", "exception"} :
          phase' = [phase EXCEPT ![u] = IF outcome = "exception" THEN "ended" ELSE "mx_finalize"]
    /\ UNCHANGED <<ctxTenant, tlTenant, reqTenant, routed>>
    /\ UNCHANGED regVars
    /\ UNCHANGED extVars

\* RouterTenantContextMixin.finalize_response: the finally clears the
\* binding whether or not super().finalize_response raised.
MxFinalize(u) ==
    /\ phase[u] = "mx_finalize"
    /\ ctxTenant' = set_current_tenant_ctx(u, None)
    /\ tlTenant' = set_current_tenant_tl(u, None)
    /\ phase' = [phase EXCEPT ![u] = "ended"]
    /\ UNCHANGED <<reqTenant, routed>>
    /\ UNCHANGED regVars
    /\ UNCHANGED extVars

CtxStep(u) ==
    \/ MwProcessRequest(u)
    \/ MwGetResponse(u)
    \/ MwProcessResponse(u)
    \/ MxInitial(u)
    \/ MxHandler(u)
    \/ MxFinalize(u)

CtxNext == \E u \in Units : CtxStep(u)

\* ------------------------------------------------------------------ router
master_apps == {<<"auth">>, <<"admin">>, <<"contenttypes">>, <<"sessions">>,
                <<"config">>, <<"messages">>}

postgres_main_apps == {<<"databases">>}

tenant_apps == {<<"api">>, <<"communicationapp">>}

\* App labels of the models the router is asked about; "other" is an app
\* in none of the three sets.
AppLabels == master_apps \cup postgres_main_apps \cup tenant_apps \cup {<<"other">>}

\* **hints as a set of <<key, value>> pairs: none, the instance hint the
\* ORM passes, a tenant_db hint naming a tenant alias, one naming the
\* default alias, and one that is empty.
HintsValues ==
    { {},
      {<<"instance", <<"obj">>>>},
      {<<"tenant_db", <<"client_", "2">>>>},
      {<<"tenant_db", <<"default">>>>},
      {<<"tenant_db", <<>>>>} }

\* hints.get(key)
DictGet(dict, key) ==
    IF \E kv \in dict : kv[1] = key
    THEN (CHOOSE kv \in dict : kv[1] = key)[2]
    ELSE None

\* Variant: the tenant id is returned without the client_ prefix.
get_tenant_db_NoPrefix(hints, tenant_id) ==
    IF hints # {} /\ ~Falsy(DictGet(hints, "tenant_db"))
    THEN DictGet(hints, "tenant_db")
    ELSE IF ~Falsy(tenant_id) /\ tenant_id # Default
         THEN tenant_id
         ELSE None

\* MultiTenantDatabaseRouter._get_tenant_db, given get_current_tenant().
\* None stands for the returned None.
get_tenant_db(hints, tenant_id) ==
    IF hints # {} /\ ~Falsy(DictGet(hints, "tenant_db"))
    THEN DictGet(hints, "tenant_db")
    ELSE IF ~Falsy(tenant_id) /\ tenant_id # Default
         THEN <<"client_">> \o tenant_id
         ELSE None

\* Variant: every app outside the master and main sets takes the tenant
\* branch.
db_for_read_UnknownIsTenant(app_label, hints, tenant_id) ==
    IF app_label \in master_apps THEN Default
    ELSE IF app_label \in postgres_main_apps THEN <<"postgres_main">>
    ELSE IF ~Falsy(get_tenant_db(hints, tenant_id))
         THEN get_tenant_db(hints, tenant_id)
         ELSE Default

\* MultiTenantDatabaseRouter.db_for_read
db_for_read(app_label, hints, tenant_id) ==
    IF app_label \in master_apps THEN Default
    ELSE IF app_label \in postgres_main_apps THEN <<"postgres_main">>
    ELSE IF app_label \in tenant_apps /\ ~Falsy(get_tenant_db(hints, tenant_id))
         THEN get_tenant_db(hints, tenant_id)
         ELSE Default

\* Variant: the tenant branch is tried before the master and main sets.
db_for_write_TenantFirst(app_label, hints, tenant_id) ==
    IF ~Falsy(get_tenant_db(hints, tenant_id)) THEN get_tenant_db(hints, tenant_id)
    ELSE IF app_label \in master_apps THEN Default
    ELSE IF app_label \in postgres_main_apps THEN <<"postgres_main">>
    ELSE Default

\* MultiTenantDatabaseRouter.db_for_write
db_for_write(app_label, hints, tenant_id) ==
    IF app_label \in master_apps THEN Default
    ELSE IF app_label \in postgres_main_apps THEN <<"postgres_main">>
    ELSE IF app_label \in tenant_apps /\ ~Falsy(get_tenant_db(hints, tenant_id))
         THEN get_tenant_db(hints, tenant_id)
         ELSE Default

\* Units that call the router: two tasks on one thread.
RouterUnits == {"u1", "u2"}

\* Values set_current_tenant is called with: ids from the middleware, its
\* "default", an alias from the mixin, the empty str, and None to clear.
TenantValues == TenantIds \cup {Default, <<"client_", "1">>, <<>>, None}

\* A caller binds or clears the tenant.
SetCurrentTenant(u) ==
    /\ \E tenant_id \in TenantValues :
          /\ ctxTenant' = set_current_tenant_ctx(u, tenant_id)
          /\ tlTenant' = set_current_tenant_tl(u, tenant_id)
    /\ routed' = NoRoute
    /\ UNCHANGED <<phase, reqTenant>>
    /\ UNCHANGED regVars
    /\ UNCHANGED extVars

\* The ORM asks the router where to read a model of app_label.
RouteRead(u) ==
    /\ \E app_label \in AppLabels, hints \in HintsValues :
          routed' = [app_label |-> app_label, hints |-> hints, op |-> "read",
                     tenant |-> get_current_tenant(u),
                     result |-> db_for_read(app_label, hints, get_current_tenant(u))]
    /\ UNCHANGED <<ctxTenant, tlTenant, phase, reqTenant>>
    /\ UNCHANGED regVars
    /\ UNCHANGED extVars

\* The ORM asks the router where to write a model of app_label.
RouteWrite(u) ==
    /\ \E app_label \in AppLabels, hints \in HintsValues :
          routed' = [app_label |-> app_label, hints |-> hints, op |-> "write",
                     tenant |-> get_current_tenant(u),
                     result |-> db_for_write(app_label, hints, get_current_tenant(u))]
    /\ UNCHANGED <<ctxTenant, tlTenant, phase, reqTenant>>
    /\ UNCHANGED regVars
    /\ UNCHANGED extVars

RouterNext == \E u \in RouterUnits : SetCurrentTenant(u) \/ RouteRead(u) \/ RouteWrite(u)

\* ------------------------------------------------- relations and migrations
\* str.startswith
StartsWith(s, prefix) ==
    Len(s) >= Len(prefix) /\ SubSeq(s, 1, Len(prefix)) = prefix

\* Variant: a relation is also allowed when either side is in default.
allow_relation_DefaultSide(app1, app2, hints, tenant_id) ==
    LET db1 == db_for_read(app1, hints, tenant_id)
        db2 == db_for_read(app2, hints, tenant_id)
    IN  IF db1 = db2 THEN TRUE
        ELSE IF db1 = Default \/ db2 = Default THEN TRUE
        ELSE FALSE

\* MultiTenantDatabaseRouter.allow_relation, given get_current_tenant()
\* and the app labels of the two objects' models.
allow_relation(app1, app2, hints, tenant_id) ==
    LET db1 == db_for_read(app1, hints, tenant_id)
        db2 == db_for_read(app2, hints, tenant_id)
    IN  IF db1 = db2 THEN TRUE
        ELSE IF db1 = Default /\ db2 = Default THEN TRUE
        ELSE FALSE

\* Variant: tenant apps may migrate on every alias but default.
allow_migrate_NotDefault(db, app_label) ==
    IF app_label \in master_apps THEN db = Default
    ELSE IF app_label \in postgres_main_apps THEN db = <<"postgres_main">>
    ELSE IF app_label \in tenant_apps THEN db # Default
    ELSE db = Default

\* MultiTenantDatabaseRouter.allow_migrate
allow_migrate(db, app_label) ==
    IF app_label \in master_apps THEN db = Default
    ELSE IF app_label \in postgres_main_apps THEN db = <<"postgres_main">>
    ELSE IF app_label \in tenant_apps
         THEN IF db = Default THEN FALSE ELSE StartsWith(db, <<"client_">>)
    ELSE db = Default

\* Database aliases migrate may be run on.
DbNames == {Default, <<"postgres_main">>, <<"client_", "1">>,
            <<"client_", "client_", "1">>, <<"tenant_", "1">>, <<>>}

\* App labels of related objects: two master apps, the postgres_main app,
\* the tenant apps, and an app in none of the sets.
RelatedApps == {<<"auth">>, <<"config">>} \cup postgres_main_apps
               \cup tenant_apps \cup {<<"other">>}

NoDecision == [fn |-> "none", arg1 |-> <<>>, arg2 |-> <<>>, hints |-> {},
               tenant |-> None, result |-> FALSE]

\* The ORM asks whether two objects may be related.
AllowRelation(u) ==
    /\ \E app1 \in RelatedApps, app2 \in RelatedApps, hints \in HintsValues :
          decided' = [fn |-> "allow_relation", arg1 |-> app1, arg2 |-> app2,
                      hints |-> hints, tenant |-> get_current_tenant(u),
                      result |-> allow_relation(app1, app2, hints, get_current_tenant(u))]
    /\ UNCHANGED <<vault, cache, clock, upstream, resolved, job>>
    /\ UNCHANGED regVars
    /\ UNCHANGED ctxVars

\* migrate asks whether app_label may migrate on db.
AllowMigrate(u) ==
    /\ \E db \in DbNames, app_label \in RelatedApps :
          decided' = [fn |-> "allow_migrate", arg1 |-> db, arg2 |-> app_label,
                      hints |-> {}, tenant |-> get_current_tenant(u),
                      result |-> allow_migrate(db, app_label)]
    /\ UNCHANGED <<vault, cache, clock, upstream, resolved, job>>
    /\ UNCHANGED regVars
    /\ UNCHANGED ctxVars

\* The unit of execution that runs migrate or saves related objects.
PolicyUnits == {"u1"}

PolicyNext == \E u \in PolicyUnits : SetCurrentTenant(u) \/ AllowRelation(u) \/ AllowMigrate(u)

\* --------------------------------------------------------- credential vault
NoVault == [op |-> "none", key |-> None, input |-> <<>>, token |-> <<>>,
            output |-> <<>>]

\* Longest password encrypted.
MaxPwLen == 3

\* Characters of a password.
PwChars == {"a", "b"}

\* Passwords handed to encrypt_password, the empty one included.
Plaintexts == UNION {[1..n -> PwChars] : n \in 0..MaxPwLen}

\* settings.DB_ENCRYPTION_KEY: the primary key, a value Fernet rejects, or
\* not configured.
VaultKeys == {PrimaryKey, <<"bad">>, None}

\* encrypt_password(password) under a configuration.
Encrypt ==
    /\ \E key \in VaultKeys, password \in Plaintexts, generated \in GeneratedKeys :
          vault' = [op |-> "encrypt", key |-> key, input |-> password,
                    token |-> encrypt_password(key, password, generated),
                    output |-> <<>>]
    /\ UNCHANGED <<decided, cache, clock, upstream, resolved, job>>
    /\ UNCHANGED regVars
    /\ UNCHANGED ctxVars

\* decrypt_password of what encrypt_password returned, under the same
\* configuration.
Decrypt ==
    /\ vault.op = "encrypt"
    /\ vault' = [vault EXCEPT !.op = "decrypt",
                              !.output = decrypt_password(vault.key, vault.token)]
    /\ UNCHANGED <<decided, cache, clock, upstream, resolved, job>>
    /\ UNCHANGED regVars
    /\ UNCHANGED ctxVars

VaultNext == Encrypt \/ Decrypt

\* ------------------------------------------------------- directory client
CACHE_TTL_SECONDS == 2000

\* Tenants known to the accounts service.
ClientIds == {1, 2}

\* Last second of the clock.
MaxClock == 4000

\* Seconds that pass between two calls.
ClockSteps == {1000, 1999}

\* Most recent version of a tenant's record at the accounts service.
MaxVersion == 2

\* Tenants whose record at the accounts service carries no user_id field
\* (the field is not among the required ones), and tenants whose record
\* carries an alias.
NoUserIdClients == {2}

AliasClients == {}

\* str(x) of a user_id; 0 stands for an absent field, whose get() is None.
PyStr(user_id) == IF user_id = 0 THEN <<"None">> ELSE IntStr(user_id)

\* The JSON body the accounts service answers for client_id: the required
\* fields (abstracted into version), and user_id and alias when it has them.
AccountsRecord(client_id, version) ==
    [user_id |-> IF client_id \in NoUserIdClients THEN 0 ELSE client_id,
     alias |-> IF client_id \in AliasClients THEN db_alias(client_id) ELSE None,
     version |-> version]

\* fetch_client_db_info, lines 119-124, on a 200 response that passed the
\* checks: alias = data.get("alias") or f"client_{data.get('user_id')}"
fetch_client_db_info(data) ==
    [data EXCEPT !.alias = Or(data.alias, <<"client_">> \o PyStr(data.user_id))]

\* What fetch_client_db_info returns for client_id when the service holds
\* the given version of the record.
Info(client_id, version) == fetch_client_db_info(AccountsRecord(client_id, version))

NoInfo == [user_id |-> 0, alias |-> None, version |-> 0]

\* cache_key = f"tenant_db_info:{client_id or client_username}"
cache_key(client_id) == <<"tenant_db_info:">> \o IntStr(client_id)

\* Variant: an entry is served however old it is.
cache_get_NoExpiry(store, key, now) ==
    IF key \in DOMAIN store THEN store[key].value ELSE NoInfo

\* cache.get(key): the value, or None (NoInfo) when the key is absent or
\* its timeout has passed.
cache_get(store, key, now) ==
    IF key \in DOMAIN store /\ now < store[key].set_at + store[key].timeout
    THEN store[key].value
    ELSE NoInfo

\* cache.set(key, value, timeout)
cache_set(store, key, value, timeout, now) ==
    Put(store, key, [value |-> value, set_at |-> now, timeout |-> timeout])

NoResolve == [client_id |-> 0, at |-> 0, outcome |-> "none", data |-> NoInfo,
              had_entry |-> FALSE, cached_at |-> 0, cached |-> NoInfo,
              fresh |-> NoInfo, fetches |-> 0]

\* time.time() advances.
Tick ==
    /\ \E dt \in ClockSteps :
          /\ clock + dt <= MaxClock
          /\ clock' = clock + dt
    /\ UNCHANGED <<decided, vault, cache, upstream, resolved, job>>
    /\ UNCHANGED regVars
    /\ UNCHANGED ctxVars

\* The accounts service changes a tenant's record.
Rotate ==
    /\ \E c \in ClientIds :
          /\ upstream[c] < MaxVersion
          /\ upstream' = [upstream EXCEPT ![c] = @ + 1]
    /\ UNCHANGED <<decided, vault, cache, clock, resolved, job>>
    /\ UNCHANGED regVars
    /\ UNCHANGED ctxVars

\* Variant: the upstream service is asked on every call.
get_cached_client_db_info_AlwaysFetch(store, now, c, fetch_ok) ==
    IF c = 0
    THEN [outcome |-> "value_error", data |-> NoInfo, store |-> store, fetches |-> 0]
    ELSE IF fetch_ok
    THEN [outcome |-> "fetched", data |-> Info(c, upstream[c]),
          store |-> cache_set(store, cache_key(c), Info(c, upstream[c]),
                              CACHE_TTL_SECONDS, now),
          fetches |-> 1]
    ELSE [outcome |-> "error", data |-> NoInfo, store |-> store, fetches |-> 1]

\* Variant: a failed fetch is tried once more before the error is raised.
get_cached_client_db_info_Retry(store, now, c, fetch_ok) ==
    IF c = 0
    THEN [outcome |-> "value_error", data |-> NoInfo, store |-> store, fetches |-> 0]
    ELSE IF cache_get(store, cache_key(c), now) # NoInfo
    THEN [outcome |-> "hit", data |-> cache_get(store, cache_key(c), now),
          store |-> store, fetches |-> 0]
    ELSE IF fetch_ok
    THEN [outcome |-> "fetched", data |-> Info(c, upstream[c]),
          store |-> cache_set(store, cache_key(c), Info(c, upstream[c]),
                              CACHE_TTL_SECONDS, now),
          fetches |-> 1]
    ELSE [outcome |-> "error", data |-> NoInfo, store |-> store, fetches |-> 2]

\* get_cached_client_db_info(client_id=c) on the cache `store` at time
\* `now`: ValueError for a falsy id; the cached data when cache.get
\* returns it; otherwise fetch_client_db_info, which makes one request and
\* raises (nothing is cached) or returns the record, which is cached for
\* CACHE_TTL_SECONDS.  fetches counts the requests.get calls; store is the
\* cache after the call.
get_cached_client_db_info(store, now, c, fetch_ok) ==
    IF c = 0
    THEN [outcome |-> "value_error", data |-> NoInfo, store |-> store, fetches |-> 0]
    ELSE IF cache_get(store, cache_key(c), now) # NoInfo
    THEN [outcome |-> "hit", data |-> cache_get(store, cache_key(c), now),
          store |-> store, fetches |-> 0]
    ELSE IF fetch_ok
    THEN [outcome |-> "fetched", data |-> Info(c, upstream[c]),
          store |-> cache_set(store, cache_key(c), Info(c, upstream[c]),
                              CACHE_TTL_SECONDS, now),
          fetches |-> 1]
    ELSE [outcome |-> "error", data |-> NoInfo, store |-> store, fetches |-> 1]

\* A caller resolves a tenant; what the cache held is recorded with the
\* outcome.
Resolve ==
    /\ \E c \in ClientIds \cup {0}, fetch_ok \in BOOLEAN :
          LET key == cache_key(c)
              r == get_cached_client_db_info(cache, clock, c, fetch_ok)
          IN  /\ resolved' = [client_id |-> c, at |-> clock, outcome |-> r.outcome,
                              data |-> r.data,
                              had_entry |-> key \in DOMAIN cache,
                              cached_at |-> IF key \in DOMAIN cache THEN cache[key].set_at ELSE 0,
                              cached |-> IF key \in DOMAIN cache THEN cache[key].value ELSE NoInfo,
                              fresh |-> IF c \in ClientIds THEN Info(c, upstream[c]) ELSE NoInfo,
                              fetches |-> r.fetches]
              /\ cache' = r.store
    /\ UNCHANGED <<decided, vault, clock, upstream, job>>
    /\ UNCHANGED regVars
    /\ UNCHANGED ctxVars

DirNext == Tick \/ Rotate \/ Resolve

NoJob == [op |-> "none", client_id |-> 0, pc |-> "idle", outcome |-> "none",
          alias |-> None, fetches |-> 0]

\* ------------------------------------------------- alias materialization
\* The configuration add_db_alias (communicationapp/utils.py) builds from a
\* directory record; the record's version stands for its credentials.
DirCfg(data) ==
    [NAME |-> <<"db">>, USER |-> <<"user">>, PASSWORD |-> <<"pw">> \o IntStr(data.version),
     HOST |-> <<"localhost">>, PORT |-> <<"5432">>, CONN_HEALTH_CHECKS |-> FALSE]

\* add_db_alias (communicationapp/utils.py): the entry is written, whatever
\* the table held.
dir_add_db_alias(table, alias, cfg) == Put(table, alias, cfg)

\* ensure_alias_for_client(client_id=c) on the cache and the two registry
\* tables: the record from get_cached_client_db_info (its errors
\* propagate); the alias when it is already in settings.DATABASES;
\* otherwise the password is decrypted and the connection tested
\* (RuntimeError when either fails) and the alias is registered.
ensure_alias_for_client(store, settings, conns, c, fetch_ok, conn_ok) ==
    LET r == get_cached_client_db_info(store, clock, c, fetch_ok) IN
    IF r.outcome \in {"value_error", "error"}
    THEN [outcome |-> r.outcome, alias |-> None, store |-> r.store,
          settings |-> settings, conns |-> conns, fetches |-> r.fetches]
    ELSE IF r.data.alias \in DOMAIN settings
    THEN [outcome |-> "ok", alias |-> r.data.alias, store |-> r.store,
          settings |-> settings, conns |-> conns, fetches |-> r.fetches]
    ELSE IF ~conn_ok
    THEN [outcome |-> "connect_error", alias |-> None, store |-> r.store,
          settings |-> settings, conns |-> conns, fetches |-> r.fetches]
    ELSE [outcome |-> "ok", alias |-> r.data.alias, store |-> r.store,
          settings |-> dir_add_db_alias(settings, r.data.alias, DirCfg(r.data)),
          conns |-> dir_add_db_alias(conns, r.data.alias, DirCfg(r.data)),
          fetches |-> r.fetches]

JobFree == job.pc \in {"idle", "done"}

\* EnsureAlias view: ensure_alias_for_client(client_id=c)
Ensure ==
    /\ JobFree
    /\ \E c \in ClientIds, fetch_ok \in BOOLEAN, conn_ok \in BOOLEAN :
          LET r == ensure_alias_for_client(cache, settingsDATABASES,
                                           connectionsDatabases, c, fetch_ok, conn_ok)
          IN  /\ cache' = r.store
              /\ settingsDATABASES' = r.settings
              /\ connectionsDatabases' = r.conns
              /\ job' = [op |-> "ensure", client_id |-> c, pc |-> "done",
                         outcome |-> r.outcome, alias |-> r.alias,
                         fetches |-> r.fetches]
    /\ UNCHANGED <<decided, vault, clock, upstream, resolved>>
    /\ UNCHANGED <<rows, pc, d, real_pw, entry, conn, resp, steps, started, overlapped>>
    /\ UNCHANGED ctxVars

\* refresh_alias_for_client(client_id=c), lines 60-72: the cache key is
\* deleted, the record fetched (an error propagates), this thread's
\* connection under the record's alias closed, and the alias popped from
\* both tables.
RefreshEvict ==
    /\ JobFree
    /\ \E c \in ClientIds, fetch_ok \in BOOLEAN :
          /\ cache' = Pop(cache, cache_key(c))
          /\ IF fetch_ok
             THEN /\ settingsDATABASES' = Pop(settingsDATABASES, Info(c, upstream[c]).alias)
                  /\ connectionsDatabases' = Pop(connectionsDatabases, Info(c, upstream[c]).alias)
                  /\ job' = [op |-> "refresh", client_id |-> c, pc |-> "popped",
                             outcome |-> "none", alias |-> Info(c, upstream[c]).alias,
                             fetches |-> 1]
             ELSE /\ UNCHANGED <<settingsDATABASES, connectionsDatabases>>
                  /\ job' = [op |-> "refresh", client_id |-> c, pc |-> "done",
                             outcome |-> "error", alias |-> None, fetches |-> 1]
    /\ UNCHANGED <<decided, vault, clock, upstream, resolved>>
    /\ UNCHANGED <<rows, pc, d, real_pw, entry, conn, resp, steps, started, overlapped>>
    /\ UNCHANGED ctxVars

\* refresh_alias_for_client, line 74: return ensure_alias_for_client(...)
RefreshEnsure ==
    /\ job.op = "refresh"
    /\ job.pc = "popped"
    /\ \E fetch_ok \in BOOLEAN, conn_ok \in BOOLEAN :
          LET r == ensure_alias_for_client(cache, settingsDATABASES,
                                           connectionsDatabases, job.client_id,
                                           fetch_ok, conn_ok)
          IN  /\ cache' = r.store
              /\ settingsDATABASES' = r.settings
              /\ connectionsDatabases' = r.conns
              /\ job' = [job EXCEPT !.pc = "done", !.outcome = r.outcome,
                                    !.alias = r.alias,
                                    !.fetches = @ + r.fetches]
    /\ UNCHANGED <<decided, vault, clock, upstream, resolved>>
    /\ UNCHANGED <<rows, pc, d, real_pw, entry, conn, resp, steps, started, overlapped>>
    /\ UNCHANGED ctxVars

\* int(alias.split("_", 1)[1]) of a token alias
AliasClientId(alias) == IF alias = <<"client_", "1">> THEN 1 ELSE 2

\* RouterTenantContextMixin.initial with _ensure_alias_ready's work on the
\* registry: a token alias absent from settings.DATABASES is resolved by
\* ensure_alias_for_client, whose RuntimeError leaves dispatch at once;
\* then the token's alias is bound.
MxInitialReady(u) ==
    /\ phase[u] \in {"idle", "ended"}
    /\ \E alias \in TokenAliases, fetch_ok \in BOOLEAN, conn_ok \in BOOLEAN :
          LET r == IF alias \in DOMAIN settingsDATABASES
                   THEN [outcome |-> "ok", store |-> cache,
                         settings |-> settingsDATABASES,
                         conns |-> connectionsDatabases]
                   ELSE ensure_alias_for_client(cache, settingsDATABASES,
                            connectionsDatabases, AliasClientId(alias),
                            fetch_ok, conn_ok)
          IN  /\ cache' = r.store
              /\ settingsDATABASES' = r.settings
              /\ connectionsDatabases' = r.conns
              /\ IF r.outcome = "ok"
                 THEN /\ ctxTenant' = set_current_tenant_ctx(u, alias)
                      /\ tlTenant' = set_current_tenant_tl(u, alias)
                      /\ reqTenant' = [reqTenant EXCEPT ![u] = alias]
                      /\ phase' = [phase EXCEPT ![u] = "mx_bound"]
                 ELSE /\ reqTenant' = [reqTenant EXCEPT ![u] = None]
                      /\ phase' = [phase EXCEPT ![u] = "ended"]
                      /\ UNCHANGED <<ctxTenant, tlTenant>>
    /\ UNCHANGED routed
    /\ UNCHANGED <<decided, vault, clock, upstream, resolved, job>>
    /\ UNCHANGED <<rows, pc, d, real_pw, entry, conn, resp, steps, started, overlapped>>

\* The unit serving requests through the mixin.
AliasUnits == {"u1"}

AliasNext ==
    \/ Rotate
    \/ Ensure
    \/ RefreshEvict
    \/ RefreshEnsure
    \/ \E u \in AliasUnits : MxInitialReady(u) \/ MxHandler(u) \/ MxFinalize(u)

ExtInit ==
    /\ decided = NoDecision
    /\ vault = NoVault
    /\ cache = <<>>
    /\ clock = 0
    /\ upstream = [c \in ClientIds |-> 1]
    /\ resolved = NoResolve
    /\ job = NoJob

\* ---------------------------------------------------------- specifications
Init == RegInit /\ CtxInit /\ ExtInit

\* The registration workflow on the worker threads.
Next == RegNext

Spec == Init /\ [][Next]_vars

\* Requests through TenantMiddleware and RouterTenantContextMixin.
NextCtx == CtxNext

SpecCtx == Init /\ [][NextCtx]_vars

\* Router calls under every tenant binding.
NextRouter == RouterNext

SpecRouter == Init /\ [][NextRouter]_vars

\* allow_relation and allow_migrate under every tenant binding.
NextPolicy == PolicyNext

SpecPolicy == Init /\ [][NextPolicy]_vars

\* encrypt_password followed by decrypt_password.
NextVault == VaultNext

SpecVault == Init /\ [][NextVault]_vars

\* The directory cache over time.
NextDir == DirNext

SpecDir == Init /\ [][NextDir]_vars

\* Aliases materialized from the directory, refreshed, and used by requests.
NextAlias == AliasNext

SpecAlias == Init /\ [][NextAlias]_vars

\* ------------------------------------------------------------------ claims
\* Rows of the table carrying user_id, deleted or not.
RowsOf(user_id) == {i \in 1..Len(rows) : rows[i].user_id = user_id}

Registered(alias) ==
    alias \in DOMAIN settingsDATABASES \/ alias \in DOMAIN connectionsDatabases

Quiescent == \A w \in Workers : ~InProgress(w)

\* C1: once a registration that failed after the insert has answered, the
\* table holds no row for its user_id and the registry no entry for its
\* alias, so that a retry passes the duplicate check.
C1_RollbackLeavesNothing ==
    \A w \in Workers :
        (pc[w] = "done" /\ resp[w] = "500_migration")
            => /\ RowsOf(d[w].user_id) = {}
               /\ ~Registered(db_alias(d[w].user_id))

\* C2: after sequential registrations, with none in progress, a record
\* exists for user_id N exactly when client_N is registered.
C2_RecordIffAlias ==
    (Quiescent /\ ~overlapped)
        => \A n \in UserIds :
              RowsOf(n) # {} <=> (/\ db_alias(n) \in DOMAIN settingsDATABASES
                                  /\ db_alias(n) \in DOMAIN connectionsDatabases)

\* C3: concurrent registrations of one user_id create at most one record
\* and register at most one configuration under client_<user_id>.
C3_AtMostOneRecord ==
    \A n \in UserIds :
        /\ Cardinality(RowsOf(n)) <= 1
        /\ Cardinality({w \in Workers : /\ d[w].user_id = n
                                        /\ \E i \in 1..Len(steps[w]) : steps[w][i] = "alias"}) <= 1

\* C4: a registration that reaches the duplicate check while a record for
\* its user_id exists answers 400 (duplicate) there, and that step leaves
\* the table and both registry tables as they were.
C4_DuplicateRejected ==
    [][\A w \in Workers :
          (pc[w] = "dupcheck" /\ pc'[w] # "dupcheck" /\ RowsOf(d[w].user_id) # {})
              => /\ pc'[w] = "done"
                 /\ resp'[w] = "400_duplicate"
                 /\ steps'[w] = <<"validated">>
                 /\ rows' = rows
                 /\ settingsDATABASES' = settingsDATABASES
                 /\ connectionsDatabases' = connectionsDatabases]_vars

\* C4 witness: a duplicate was rejected while the record and alias exist.
C4_Witness ==
    \E w \in Workers :
        /\ pc[w] = "done"
        /\ resp[w] = "400_duplicate"
        /\ RowsOf(d[w].user_id) # {}
        /\ Registered(db_alias(d[w].user_id))

PreInsertFailures == {"400_invalid", "400_host", "400_connect", "400_alias_exists"}

PreInsertPcs == {"idle", "done", "dupcheck", "hostcheck", "aliascheck"}

PostInsertSteps == {"record", "alias", "migrated", "migrate_failed", "deleted", "unregistered"}

Moved(w) ==
    pc'[w] # pc[w] \/ resp'[w] # resp[w] \/ steps'[w] # steps[w] \/ d'[w] # d[w]

\* C5: every step of a request up to the insert leaves the table and both
\* registry tables unchanged, and a request that answers with a
\* pre-insert failure has performed no step from the insert on.
C5_PreInsertFailureNoEffect ==
    [][\A w \in Workers :
          (Moved(w) /\ pc[w] \in PreInsertPcs)
              => /\ rows' = rows
                 /\ settingsDATABASES' = settingsDATABASES
                 /\ connectionsDatabases' = connectionsDatabases
                 /\ (pc'[w] = "done" /\ resp'[w] \in PreInsertFailures)
                       => /\ entry'[w] = 0
                          /\ \A i \in 1..Len(steps'[w]) : steps'[w][i] \notin PostInsertSteps]_vars

\* C5 witness: a request failed on the alias check while the table and
\* the registry were populated.
C5_Witness ==
    \E w \in Workers :
        /\ pc[w] = "done"
        /\ resp[w] = "400_alias_exists"
        /\ rows # <<>>
        /\ Registered(db_alias(d[w].user_id))

\* The request of u has bound its tenant and not yet cleared it.
Bound(u) == phase[u] \in {"mw_bound", "mw_response", "mx_bound"}

\* C6: a request that bound a tenant reads back its own tenant, whatever
\* the other units, on its thread or another, have bound since.
C6_OwnTenant ==
    \A u \in Units : Bound(u) => get_current_tenant(u) = reqTenant[u]

\* C6 witness: two requests on the same thread are bound to different
\* tenants, and the thread-local holds the other one's.
C6_Witness ==
    /\ Bound("u1")
    /\ Bound("u2")
    /\ reqTenant["u1"] # reqTenant["u2"]
    /\ tlTenant["t1"] = reqTenant["u2"]
    /\ Bound("u3")

\* C7: a unit whose own binding is absent (never bound, or cleared with
\* set_current_tenant(None)) reads None.
C7_NoCrossUnit ==
    \A u \in Units : ctxTenant[u] = None => get_current_tenant(u) = None

\* C8: when request handling has ended, get_current_tenant returns None.
C8_ClearedAtEnd ==
    \A u \in Units : phase[u] = "ended" => get_current_tenant(u) = None

\* The tenant_db hint of a router call is absent or empty.
NoTenantDbHint(hints) == Falsy(DictGet(hints, "tenant_db"))

\* C9, as claimed: with a tenant id T other than "default" current, a
\* model of a tenant app is routed to client_<T>, whatever the hints.
C9_TenantRouted ==
    (/\ routed.op # "none"
     /\ routed.app_label \in tenant_apps
     /\ routed.tenant \notin {None, Default, <<>>})
        => routed.result = <<"client_">> \o routed.tenant

\* C9, amended: with a non-empty tenant T other than "default" current
\* and no tenant_db hint, a model of a tenant app is routed to client_<T>
\* by db_for_read and db_for_write alike.
C9_TenantRoutedNoHint ==
    (/\ routed.op # "none"
     /\ routed.app_label \in tenant_apps
     /\ routed.tenant \notin {None, Default, <<>>}
     /\ NoTenantDbHint(routed.hints))
        => /\ routed.result = <<"client_">> \o routed.tenant
           /\ routed.result # Default

\* C9 witness: a write of a tenant model under tenant 2, with the ORM's
\* instance hint, went to client_2.
C9_Witness ==
    /\ routed.op = "write"
    /\ routed.app_label = <<"api">>
    /\ routed.tenant = <<"2">>
    /\ routed.hints = {<<"instance", <<"obj">>>>}
    /\ routed.result = <<"client_", "2">>

\* C10: master apps are routed to default and the databases app to
\* postgres_main, whatever the current tenant and the hints.
C10_MasterIndependent ==
    routed.op # "none"
        => /\ routed.app_label \in master_apps => routed.result = Default
           /\ routed.app_label \in postgres_main_apps => routed.result = <<"postgres_main">>

\* C10 witness: a write of a master model with tenant 1 current and a
\* tenant_db hint went to default.
C10_Witness ==
    /\ routed.op = "write"
    /\ routed.app_label \in master_apps
    /\ routed.tenant = <<"1">>
    /\ ~NoTenantDbHint(routed.hints)
    /\ routed.result = Default

\* C11: a model of a tenant app with no tenant current (None) or with
\* "default" current, and no tenant_db hint, and a model of an app in none
\* of the router's sets under any tenant and any hints, is routed to the
\* default alias by db_for_read and db_for_write.
C11_FallsBackToDefault ==
    routed.op # "none" =>
        /\ (/\ routed.app_label \in tenant_apps
            /\ routed.tenant \in {None, Default}
            /\ NoTenantDbHint(routed.hints)) => routed.result = Default
        /\ routed.app_label \notin (master_apps \cup postgres_main_apps \cup tenant_apps)
              => routed.result = Default

\* C11 witness: a read of a model of an unknown app, with tenant 1 current
\* and a tenant_db hint naming client_2, went to default.
C11_Witness ==
    /\ routed.op = "read"
    /\ routed.app_label = <<"other">>
    /\ routed.tenant = <<"1">>
    /\ routed.hints = {<<"tenant_db", <<"client_", "2">>>>}
    /\ routed.result = Default

\* The two objects of an allow_relation call are a tenant-app model and a
\* master-app model, in either order.
TenantWithMaster ==
    \/ decided.arg1 \in tenant_apps /\ decided.arg2 \in master_apps
    \/ decided.arg1 \in master_apps /\ decided.arg2 \in tenant_apps

\* C12, as claimed: allow_relation is true exactly when db_for_read gives
\* both models the same alias under the current tenant, and with a tenant
\* other than "default" current a relation between a tenant-app model and a
\* master-app model is denied.
C12_RelationSameAlias ==
    decided.fn = "allow_relation" =>
        /\ decided.result <=>
              (db_for_read(decided.arg1, decided.hints, decided.tenant)
                 = db_for_read(decided.arg2, decided.hints, decided.tenant))
        /\ (decided.tenant \notin {None, Default, <<>>} /\ TenantWithMaster)
              => ~decided.result

\* C12, amended: allow_relation is true exactly when db_for_read gives both
\* models the same alias under the current tenant, and with a non-empty
\* tenant other than "default" current and no tenant_db hint a relation
\* between a tenant-app model and a master-app model is denied.
C12_RelationSameAliasNoHint ==
    decided.fn = "allow_relation" =>
        /\ decided.result <=>
              (db_for_read(decided.arg1, decided.hints, decided.tenant)
                 = db_for_read(decided.arg2, decided.hints, decided.tenant))
        /\ (/\ decided.tenant \notin {None, Default, <<>>}
            /\ NoTenantDbHint(decided.hints)
            /\ TenantWithMaster)
              => ~decided.result

\* C12 witness: with tenant 1 current and no hints, the relation between an
\* api model and an auth model was denied.
C12_Witness ==
    /\ decided.fn = "allow_relation"
    /\ decided.arg1 = <<"api">>
    /\ decided.arg2 = <<"auth">>
    /\ decided.tenant = <<"1">>
    /\ decided.hints = {}
    /\ decided.result = FALSE

\* C13: allow_migrate never lets a tenant app (api, communicationapp)
\* migrate on the default alias; for a tenant app it is true only on an
\* alias that starts with client_, for a master app only on default, and
\* for the databases app only on postgres_main.
C13_MigrateOnOwnAlias ==
    decided.fn = "allow_migrate" =>
        /\ (decided.arg2 \in tenant_apps /\ decided.arg1 = Default) => ~decided.result
        /\ (decided.arg2 \in tenant_apps /\ decided.result)
              => (Len(decided.arg1) >= 1 /\ Head(decided.arg1) = "client_")
        /\ (decided.arg2 \in master_apps /\ decided.result) => decided.arg1 = Default
        /\ (decided.arg2 \in postgres_main_apps /\ decided.result)
              => decided.arg1 = <<"postgres_main">>

\* C13 witness: migrate asked for the api app on default and was refused.
C13_Witness ==
    /\ decided.fn = "allow_migrate"
    /\ decided.arg1 = Default
    /\ decided.arg2 = <<"api">>
    /\ decided.result = FALSE

\* C14: once a registration for user_id N has answered 201, client_N is in
\* both registry tables, a request whose X-Tenant header is N has tenant-app
\* reads and writes routed to client_N, and a request with no tenant
\* identifier has them routed to default.
C14_RegisteredThenRouted ==
    \A w \in Workers :
        (pc[w] = "done" /\ resp[w] = "201")
            => /\ db_alias(d[w].user_id) \in DOMAIN settingsDATABASES
               /\ db_alias(d[w].user_id) \in DOMAIN connectionsDatabases
               /\ db_for_read(<<"api">>, {},
                      request_tenant(IntStr(d[w].user_id), None, None)) = db_alias(d[w].user_id)
               /\ db_for_write(<<"api">>, {},
                      request_tenant(IntStr(d[w].user_id), None, None)) = db_alias(d[w].user_id)
               /\ db_for_read(<<"api">>, {}, request_tenant(None, None, None)) = Default
               /\ db_for_write(<<"api">>, {}, request_tenant(None, None, None)) = Default

\* C15: while a request that TenantMiddleware bound to a tenant is being
\* served, the alias the router returns for a tenant-app model is in the
\* connection registry.
C15_RoutedAliasRegistered ==
    \A u \in Units :
        (phase[u] = "mw_bound" /\ reqTenant[u] \notin {None, Default})
            => /\ db_for_read(<<"api">>, {}, get_current_tenant(u))
                     \in DOMAIN connectionsDatabases
               /\ db_for_write(<<"api">>, {}, get_current_tenant(u))
                     \in DOMAIN connectionsDatabases

\* Tenants whose records are all soft-deleted.
SoftDeletedTenants ==
    {n \in UserIds : RowsOf(n) # {} /\ \A i \in RowsOf(n) : rows[i].is_deleted}

\* C16: once a tenant's record is soft-deleted and no request is in
\* progress, its alias is in neither registry table, and the router does
\* not resolve a tenant-app read or write bound to that tenant to its alias.
C16_DeletedNeverResolved ==
    Quiescent =>
        \A n \in SoftDeletedTenants :
            /\ ~Registered(db_alias(n))
            /\ db_for_read(<<"api">>, {}, request_tenant(IntStr(n), None, None)) # db_alias(n)
            /\ db_for_write(<<"api">>, {}, request_tenant(IntStr(n), None, None)) # db_alias(n)

\* C17: every row post has inserted holds db_password as a token encrypted
\* under the primary key, whatever the request carried.
C17_PasswordStoredEncrypted ==
    \A i \in 1..Len(rows) : IsFernet(PrimaryKey, rows[i].db_password)

\* C18: a request whose db_password does not decrypt under the primary key
\* stops at the decrypt step: the connection test is not run with it, it is
\* answered neither by the connection test nor with 201, and no row holds it.
C18_UndecryptableAborts ==
    \A w \in Workers :
        (d[w] # NoData /\ ~IsFernet(PrimaryKey, d[w].db_password))
            => /\ real_pw[w] = None
               /\ \A i \in 1..Len(steps[w]) : steps[w][i] # "conntest"
               /\ resp[w] \notin {"400_connect", "201"}
               /\ entry[w] = 0

\* C19: with DB_ENCRYPTION_KEY configured, decrypt_password of what
\* encrypt_password returned for a non-empty password is that password.
C19_RoundTrip ==
    (vault.op = "decrypt" /\ vault.key # None /\ vault.input # <<>>)
        => vault.output = vault.input

\* C19 witness: under the primary key the password "ab" was encrypted to a
\* token other than itself and decrypted back to "ab".
C19_Witness ==
    /\ vault.op = "decrypt"
    /\ vault.key = PrimaryKey
    /\ vault.input = <<"a", "b">>
    /\ vault.token = <<"gAAAA">> \o PrimaryKey \o <<":", "a", "b">>
    /\ vault.output = <<"a", "b">>

\* C20: when get_cached_client_db_info is called CACHE_TTL_SECONDS or more
\* after the tenant's entry was cached, it does not serve the entry: it
\* fetches from the accounts service, and what it returns is the record as
\* the service holds it at the call.
C20_ExpiredEntryRefetched ==
    (/\ resolved.outcome \notin {"none", "value_error"}
     /\ resolved.had_entry
     /\ resolved.at - resolved.cached_at >= CACHE_TTL_SECONDS)
        => /\ resolved.outcome \in {"fetched", "error"}
           /\ resolved.outcome = "fetched" => resolved.data = resolved.fresh
           /\ resolved.outcome = "error" => resolved.data = NoInfo

\* C20 witness: tenant 1's record was cached at version 1, changed at the
\* service, and a call after the TTL fetched and returned version 2.
C20_Witness ==
    /\ resolved.client_id = 1
    /\ resolved.had_entry
    /\ resolved.at - resolved.cached_at >= CACHE_TTL_SECONDS
    /\ resolved.cached.version = 1
    /\ resolved.outcome = "fetched"
    /\ resolved.data.version = 2

\* C21: when a refresh_alias_for_client call for a tenant ends, the cache
\* holds no entry for the tenant other than the record the service holds
\* now, and neither registry table holds a configuration under the tenant's
\* alias other than the one built from that record.
C21_RefreshLeavesNothingStale ==
    [][((RefreshEvict \/ RefreshEnsure) /\ job'.pc = "done")
          => /\ (cache_key(job'.client_id) \in DOMAIN cache'
                   => cache'[cache_key(job'.client_id)].value
                        = Info(job'.client_id, upstream'[job'.client_id]))
             /\ \A table \in {settingsDATABASES', connectionsDatabases'} :
                   Info(job'.client_id, upstream'[job'.client_id]).alias \in DOMAIN table
                      => table[Info(job'.client_id, upstream'[job'.client_id]).alias]
                            = DirCfg(Info(job'.client_id, upstream'[job'.client_id]))
       ]_vars

\* C22: add_db_alias called for an alias that is already in the registry
\* fails and leaves both registry tables as they were; post does not go on
\* to migrate.
C22_ExistingAliasKept ==
    [][\A w \in Workers :
          (/\ pc[w] = "add_alias"
           /\ pc'[w] # "add_alias"
           /\ db_alias(d[w].user_id) \in DOMAIN settingsDATABASES)
              => /\ settingsDATABASES' = settingsDATABASES
                 /\ connectionsDatabases' = connectionsDatabases
                 /\ pc'[w] # "migrate"
       ]_vars

\* Step a occurs before step b in the steps of worker w's request.
StepBefore(w, a, b) ==
    \E i \in 1..Len(steps[w]) : \E j \in (i + 1)..Len(steps[w]) :
        steps[w][i] = a /\ steps[w][j] = b

StepTaken(w, a) == \E i \in 1..Len(steps[w]) : steps[w][i] = a

\* C23: in every request of post the steps come in the order validation,
\* host check, password decryption, connection test, record insert, alias
\* registration, migration; and 201 is answered only after the migration
\* succeeded.
C23_StepsInOrder ==
    \A w \in Workers :
        /\ StepTaken(w, "host") => StepBefore(w, "validated", "host")
        /\ StepTaken(w, "decrypt") => StepBefore(w, "host", "decrypt")
        /\ StepTaken(w, "conntest") => StepBefore(w, "decrypt", "conntest")
        /\ StepTaken(w, "record") => StepBefore(w, "conntest", "record")
        /\ StepTaken(w, "alias") => StepBefore(w, "record", "alias")
        /\ StepTaken(w, "migrated") => StepBefore(w, "alias", "migrated")
        /\ StepTaken(w, "migrate_failed") => StepBefore(w, "alias", "migrate_failed")
        /\ (resp[w] = "201" /\ pc[w] = "done") => StepTaken(w, "migrated")
        /\ entry[w] # 0 => StepTaken(w, "record")

\* C23 witness: a request answered 201 after all seven steps in order.
C23_Witness ==
    \E w \in Workers :
        /\ pc[w] = "done"
        /\ resp[w] = "201"
        /\ steps[w] = <<"validated", "dupchecked", "host", "decrypt", "conntest",
                        "aliaschecked", "record", "alias", "migrated">>

\* C24: a get_cached_client_db_info call that finds an unexpired entry
\* returns it without asking the accounts service; the service is asked
\* only when there is no entry or it has expired, and a fetched record is
\* in the cache, stored at the time of the call for CACHE_TTL_SECONDS, when
\* the call returns it.
C24_HitServedFromCache ==
    resolved.outcome \notin {"none", "value_error"} =>
        /\ (resolved.had_entry /\ resolved.at - resolved.cached_at < CACHE_TTL_SECONDS)
              => /\ resolved.outcome = "hit"
                 /\ resolved.fetches = 0
                 /\ resolved.data = resolved.cached
        /\ resolved.fetches > 0
              => (~resolved.had_entry
                    \/ resolved.at - resolved.cached_at >= CACHE_TTL_SECONDS)
        /\ resolved.outcome = "fetched"
              => /\ cache_key(resolved.client_id) \in DOMAIN cache
                 /\ cache[cache_key(resolved.client_id)]
                      = [value |-> resolved.data, set_at |-> resolved.at,
                         timeout |-> CACHE_TTL_SECONDS]

\* C24 witness: tenant 1's record changed at the service after it was
\* cached, and a call within the TTL returned the cached version 1 without
\* a fetch.
C24_Witness ==
    /\ resolved.client_id = 1
    /\ resolved.outcome = "hit"
    /\ resolved.fetches = 0
    /\ resolved.at > resolved.cached_at
    /\ resolved.data.version = 1
    /\ resolved.fresh.version = 2

\* C25: an ensure_alias_for_client call whose upstream fetch fails makes one
\* request, ends with the error, and leaves the cache and both registry
\* tables as they were.
C25_FetchFailureSurfaced ==
    [][(Ensure /\ job'.outcome = "error")
          => /\ job'.fetches = 1
             /\ job'.alias = None
             /\ cache' = cache
             /\ settingsDATABASES' = settingsDATABASES
             /\ connectionsDatabases' = connectionsDatabases
       ]_vars

\* C25 witness: ensure_alias_for_client for tenant 1 ended with the fetch
\* error after one request; nothing is cached or registered for the tenant.
C25_Witness ==
    /\ job = [op |-> "ensure", client_id |-> 1, pc |-> "done", outcome |-> "error",
              alias |-> None, fetches |-> 1]
    /\ cache_key(1) \notin DOMAIN cache
    /\ db_alias(1) \notin DOMAIN settingsDATABASES
    /\ db_alias(1) \notin DOMAIN connectionsDatabases

\* C26: a record fetched for tenant id N from a directory response that
\* carries no alias has the alias client_N of the id that was asked for.
C26_AliasFromRequestedId ==
    (/\ resolved.outcome = "fetched"
     /\ AccountsRecord(resolved.client_id, resolved.data.version).alias = None)
        => resolved.data.alias = db_alias(resolved.client_id)

\* C27: when a registration request has been answered, the connection its
\* migration opened under the new alias is no longer open, after a
\* successful migration and after a failed one with its rollback alike.
C27_ConnectionClosedAtResponse ==
    \A w \in Workers : pc[w] = "done" => conn[w] # "open"

\* C27 witness: a request answered 500 after its migration failed on an
\* open connection and the rollback unregistered the alias; the connection
\* is closed.
C27_Witness ==
    \E w \in Workers :
        /\ pc[w] = "done"
        /\ resp[w] = "500_migration"
        /\ StepTaken(w, "unregistered")
        /\ conn[w] = "closed"

\* C28: the rollback of a failed registration leaves alone what another
\* registration for the same user_id created: after its unregistering
\* step, the alias of a request that was answered 201 is still in both
\* registry tables and that request's record is not deleted.
C28_RollbackOnlyOwnState ==
    [][\A w \in Workers : \A o \in Workers \ {w} :
          (/\ CleanupDelete(w) \/ CleanupPop(w)
           /\ pc[o] = "done"
           /\ resp[o] = "201"
           /\ d[o].user_id = d[w].user_id)
             => /\ db_alias(d[o].user_id) \in DOMAIN settingsDATABASES'
                /\ db_alias(d[o].user_id) \in DOMAIN connectionsDatabases'
                /\ \E i \in 1..Len(rows') : rows'[i].id = entry[o] /\ ~rows'[i].is_deleted
      ]_vars

\* C29: while a request of RouterTenantContextMixin is past initial() with
\* the token's alias A bound, db_for_read and db_for_write for a tenant app
\* return A.
C29_RouterReturnsTokenAlias ==
    \A u \in AliasUnits :
        phase[u] = "mx_bound"
            => /\ db_for_read(<<"api">>, {}, get_current_tenant(u)) = reqTenant[u]
               /\ db_for_write(<<"api">>, {}, get_current_tenant(u)) = reqTenant[u]

\* C30: while a request of RouterTenantContextMixin is between initial()
\* and its end, no step removes its alias A from settings.DATABASES or
\* connections.databases once A is registered there.
C30_AliasStaysRegistered ==
    [][\A u \in AliasUnits :
          (/\ phase[u] \in {"mx_bound", "mx_finalize"}
           /\ phase'[u] \in {"mx_bound", "mx_finalize"}
           /\ reqTenant[u] \in DOMAIN settingsDATABASES
           /\ reqTenant[u] \in DOMAIN connectionsDatabases)
             => /\ reqTenant[u] \in DOMAIN settingsDATABASES'
                /\ reqTenant[u] \in DOMAIN connectionsDatabases'
      ]_vars

====
